---- MODULE Spec2Model ----
(***************************************************************************)
(* Model of cmd/crawler/api.go of node-crawler: the synchronization daemon *)
(* (newNodeDaemon / transferNewNodes) that drains the crawler database     *)
(* into the API database, and the eviction daemon (dropDaemon).            *)
(*                                                                         *)
(* The clock advances in steps of two minutes (ClockStep), and times are   *)
(* counted in such steps.  A time.Duration is a signed 64-bit count of     *)
(* nanoseconds; it is kept as four 16-bit limbs, least significant first,  *)
(* so that doubling wraps exactly as the Go arithmetic does.               *)
(***************************************************************************)
EXTENDS Integers, Sequences, FiniteSets, TLC

VARIABLES
    alive,        \* the process runs (no goroutine has panicked)
    now,          \* the wall clock, in clock steps
    tickerC,      \* number of ticks waiting in ticker.C (buffer of one)
    dropErr,      \* dropDaemon's err is non-nil
    crawlerRows,  \* committed rows of the crawler database
    nextRow,      \* row number of the next row the crawler appends
    nodeDB,       \* the API database: identifier -> node
    pc,           \* where newNodeDaemon / transferNewNodes stands
    txOpen,       \* crawlerDBTx is open
    txDel,        \* rows deleted inside crawlerDBTx, not yet committed
    nodes,        \* transferNewNodes' local: the batch read
    err,          \* newNodeDaemon's err: which call of the cycle failed
    retryTimeout, \* newNodeDaemon's backoff interval
    sleepArg,     \* argument of the time.Sleep in progress
    remaining,    \* what is left of the time.Sleep in progress
    upserted,     \* history: rows whose upsert has completed
    sinceDrop,    \* history: identifiers upserted since the last eviction
    streak        \* history: failed cycles in a row (see SleepOnError)

vars == <<alive, now, tickerC, dropErr, crawlerRows, nextRow, nodeDB, pc,
          txOpen, txDel, nodes, err, retryTimeout, sleepArg, remaining,
          upserted, sinceDrop, streak>>

(***************************************************************************)
(* Bounds of the model.                                                    *)
(***************************************************************************)
\* the clock stops after MaxTime steps
MaxTime == 8
\* total number of rows the crawling engine appends in one run
MaxRows == 2
\* the retention (flag drop-time), in clock steps
DropTimeout == 1
\* the history counter streak stops counting at MaxStreak
MaxStreak == 60

\* node identifiers: the upsert key, two of them so that an identifier can
\* be observed again and can differ from another
Ids == {1, 2}

(***************************************************************************)
(* time.Duration: int64 nanoseconds as limbs.                              *)
(***************************************************************************)
LimbBase == 2^16
SignLimb == 2^15

Zero == <<0, 0, 0, 0>>
\* time.Second = 1 000 000 000 ns = 0x3B9A_CA00
Second == <<51712, 15258, 0, 0>>
\* time.Minute = 60 000 000 000 ns = 0xD_F847_5800
Minute == <<22528, 63559, 13, 0>>

\* d * n modulo 2^64, for a small natural n
TimesSmall(d, n) ==
    LET p1 == d[1] * n
        p2 == d[2] * n + (p1 \div LimbBase)
        p3 == d[3] * n + (p2 \div LimbBase)
        p4 == d[4] * n + (p3 \div LimbBase)
    IN  <<p1 % LimbBase, p2 % LimbBase, p3 % LimbBase, p4 % LimbBase>>

\* retryTimeout *= 2 on int64: the product wraps modulo 2^64
Double(d) == TimesSmall(d, 2)

\* a - b modulo 2^64
Minus(a, b) ==
    LET s1 == a[1] - b[1]
        c1 == IF s1 < 0 THEN 1 ELSE 0
        s2 == a[2] - b[2] - c1
        c2 == IF s2 < 0 THEN 1 ELSE 0
        s3 == a[3] - b[3] - c2
        c3 == IF s3 < 0 THEN 1 ELSE 0
        s4 == a[4] - b[4] - c3
    IN  <<s1 % LimbBase, s2 % LimbBase, s3 % LimbBase, s4 % LimbBase>>

IsNeg(d) == d[4] >= SignLimb

\* unsigned comparison of the limbs
ULess(a, b) ==
    \E i \in 1..4 : a[i] < b[i] /\ \A j \in (i+1)..4 : a[j] = b[j]

\* a < b as signed 64-bit integers
Less(a, b) ==
    IF IsNeg(a) # IsNeg(b) THEN IsNeg(a) ELSE ULess(a, b)

IsPositive(d) == Less(Zero, d)

\* one step of the clock: two minutes
ClockStep == TimesSmall(Minute, 2)

(***************************************************************************)
(* The two stores.  A row of the crawler database is a record              *)
(* [row, id, addr, seen]; the API database maps a node identifier to       *)
(* NoNode or to [addr, lastSeen, firstSeen].                               *)
(***************************************************************************)
NoNode == [addr |-> 0, lastSeen |-> 0, firstSeen |-> 0, present |-> FALSE]

Node(a, l, f) == [addr |-> a, lastSeen |-> l, firstSeen |-> f, present |-> TRUE]

\* the eviction cadence of dropDaemon's ticker, 10 * time.Minute, in
\* clock steps of two minutes
Cadence == 10 \div 2

MinRow(rows) == CHOOSE r \in rows : \A q \in rows : r.row <= q.row

\* mutant: the row is replaced, first-seen included
UpsertOneReplaces(db, r) ==
    [db EXCEPT ![r.id] = Node(r.addr, r.seen, r.seen)]

\* upsert keyed by identifier: address and last-seen are refreshed,
\* first-seen is kept on an existing row
UpsertOne(db, r) ==
    [db EXCEPT ![r.id] =
        IF @.present THEN Node(r.addr, r.seen, @.firstSeen)
        ELSE Node(r.addr, r.seen, r.seen)]

RECURSIVE UpsertAll(_, _)
UpsertAll(db, rows) ==
    IF rows = {} THEN db
    ELSE UpsertAll(UpsertOne(db, MinRow(rows)), rows \ {MinRow(rows)})

\* apidb.InsertCrawledNodes: all rows of the batch in one transaction
InsertCrawledNodes(db, rows) == UpsertAll(db, rows)

\* apidb.DropOldNodes: one bulk delete of the rows whose last-seen is older
\* than t - timeout, the predicate being evaluated at delete time
DropOldNodes(db, t, timeout) ==
    [i \in DOMAIN db |->
        IF db[i].present /\ db[i].lastSeen < t - timeout THEN NoNode ELSE db[i]]

\* crawlerdb.ReadAndDeleteUnseenNodes: every pending row is read and
\* deleted inside the transaction
ReadAndDeleteUnseenNodes(rows) == rows

(***************************************************************************)
(* Initial state: both databases empty, the daemons just started.          *)
(***************************************************************************)
Init ==
    /\ alive = TRUE
    /\ now = 0
    /\ tickerC = 0
    /\ dropErr = FALSE
    /\ crawlerRows = {}
    /\ nextRow = 1
    /\ nodeDB = [i \in Ids |-> NoNode]
    /\ pc = "begin"
    /\ txOpen = FALSE
    /\ txDel = {}
    /\ nodes = {}
    /\ err = "nil"
    /\ retryTimeout = Minute
    /\ sleepArg = Zero
    /\ remaining = Zero
    /\ upserted = {}
    /\ sinceDrop = {}
    /\ streak = 0

\* as Init, with one row already pending in the crawler database
InitBackoff ==
    /\ alive = TRUE
    /\ now = 0
    /\ tickerC = 0
    /\ dropErr = FALSE
    /\ \E i \in Ids :
          crawlerRows = {[row |-> 1, id |-> i, addr |-> 1, seen |-> 0]}
    /\ nextRow = 2
    /\ nodeDB = [i \in Ids |-> NoNode]
    /\ pc = "begin"
    /\ txOpen = FALSE
    /\ txDel = {}
    /\ nodes = {}
    /\ err = "nil"
    /\ retryTimeout = Minute
    /\ sleepArg = Zero
    /\ remaining = Zero
    /\ upserted = {}
    /\ sinceDrop = {}
    /\ streak = 0

envVars == <<alive, now, tickerC, dropErr>>

Sleeping == pc \in {"backoff", "idle"}

(***************************************************************************)
(* The crawling engine appends a freshly probed peer to the crawler        *)
(* database.  The code only copies addresses, never compares them, so each *)
(* observation carries a fresh address (the number of its row).            *)
(***************************************************************************)
AppendNode ==
    /\ alive
    /\ nextRow <= MaxRows
    /\ \E i \in Ids :
          crawlerRows' = crawlerRows \cup
              {[row |-> nextRow, id |-> i, addr |-> nextRow, seen |-> now]}
    /\ nextRow' = nextRow + 1
    /\ UNCHANGED <<envVars, nodeDB, pc, txOpen, txDel, nodes, err,
                   retryTimeout, sleepArg, remaining, upserted, sinceDrop,
                   streak>>

(***************************************************************************)
(* transferNewNodes, one action per database call; the deferred Rollback   *)
(* runs in every action that returns after Begin.                          *)
(***************************************************************************)
\* mutant: the deferred call commits instead of rolling back
RollbackCommits ==
    /\ txOpen' = FALSE
    /\ txDel' = {}
    /\ crawlerRows' = crawlerRows \ txDel

\* mutant: no deferred Rollback, the transaction stays open on return
RollbackMissing ==
    /\ txOpen' = txOpen
    /\ txDel' = txDel
    /\ crawlerRows' = crawlerRows

\* the deferred crawlerDBTx.Rollback(): what the transaction deleted is
\* restored, the transaction is closed
Rollback ==
    /\ txOpen' = FALSE
    /\ txDel' = {}
    /\ crawlerRows' = crawlerRows

\* newNodeDaemon, err != nil: time.Sleep(retryTimeout).
\* streak counts the failed cycles since the idle sleep of the last
\* successful cycle ended, up to MaxStreak.
SleepOnError(e) ==
    /\ pc' = "backoff"
    /\ err' = e
    /\ sleepArg' = retryTimeout
    /\ remaining' = retryTimeout
    /\ nodes' = {}
    /\ streak' = IF streak < MaxStreak THEN streak + 1 ELSE streak
    /\ UNCHANGED retryTimeout

\* mutant: the interval is not reset after a successful cycle
SleepOnSuccessNoReset ==
    /\ pc' = "idle"
    /\ err' = "nil"
    /\ retryTimeout' = retryTimeout
    /\ sleepArg' = Second
    /\ remaining' = Second
    /\ nodes' = {}
    /\ UNCHANGED streak

\* mutant: a successful cycle is followed by the sleep of the failed one
SleepOnSuccessBackoffSleep ==
    /\ pc' = "idle"
    /\ err' = "nil"
    /\ retryTimeout' = Minute
    /\ sleepArg' = retryTimeout
    /\ remaining' = retryTimeout
    /\ nodes' = {}
    /\ UNCHANGED streak

\* newNodeDaemon, err = nil: retryTimeout = time.Minute; Sleep(time.Second)
SleepOnSuccess ==
    /\ pc' = "idle"
    /\ err' = "nil"
    /\ retryTimeout' = Minute
    /\ sleepArg' = Second
    /\ remaining' = Second
    /\ nodes' = {}
    /\ UNCHANGED streak

\* crawlerDB.Begin() succeeds
BeginOk ==
    /\ alive /\ pc = "begin"
    /\ txOpen' = TRUE
    /\ txDel' = {}
    /\ pc' = "read"
    /\ UNCHANGED <<envVars, crawlerRows, nextRow, nodeDB, nodes, err,
                   retryTimeout, sleepArg, remaining, upserted, sinceDrop,
                   streak>>

\* mutant: the error of Begin is treated as fatal
BeginErrFatal ==
    /\ alive /\ pc = "begin"
    /\ SleepOnError("begin")
    /\ alive' = FALSE
    /\ UNCHANGED <<now, tickerC, dropErr, crawlerRows, nextRow, nodeDB,
                   txOpen, txDel, upserted, sinceDrop>>

\* crawlerDB.Begin() fails (the database is locked by the crawler)
BeginErr ==
    /\ alive /\ pc = "begin"
    /\ SleepOnError("begin")
    /\ UNCHANGED <<envVars, crawlerRows, nextRow, nodeDB, txOpen, txDel,
                   upserted, sinceDrop>>

\* mutant: the batch is committed without being upserted
ReadOkSkipsUpsert ==
    /\ alive /\ pc = "read"
    /\ nodes' = ReadAndDeleteUnseenNodes(crawlerRows)
    /\ txDel' = ReadAndDeleteUnseenNodes(crawlerRows)
    /\ pc' = "commit"
    /\ UNCHANGED <<envVars, crawlerRows, nextRow, nodeDB, txOpen, err,
                   retryTimeout, sleepArg, remaining, upserted, sinceDrop,
                   streak>>

\* ReadAndDeleteUnseenNodes succeeds
ReadOk ==
    /\ alive /\ pc = "read"
    /\ nodes' = ReadAndDeleteUnseenNodes(crawlerRows)
    /\ txDel' = ReadAndDeleteUnseenNodes(crawlerRows)
    /\ pc' = IF ReadAndDeleteUnseenNodes(crawlerRows) # {} THEN "insert"
             ELSE "commit"
    /\ UNCHANGED <<envVars, crawlerRows, nextRow, nodeDB, txOpen, err,
                   retryTimeout, sleepArg, remaining, upserted, sinceDrop,
                   streak>>

\* mutant: a failed read is taken for a cycle with nothing to transfer
ReadErrCountsAsSuccess ==
    /\ alive /\ pc = "read"
    /\ Rollback
    /\ SleepOnSuccess
    /\ UNCHANGED <<envVars, nextRow, nodeDB, upserted, sinceDrop>>

\* ReadAndDeleteUnseenNodes fails: return, deferred Rollback
ReadErr ==
    /\ alive /\ pc = "read"
    /\ Rollback
    /\ SleepOnError("read")
    /\ UNCHANGED <<envVars, nextRow, nodeDB, upserted, sinceDrop>>

\* mutant: only the first row of the batch is handed to the upsert
InsertOkFirstOnly ==
    /\ alive /\ pc = "insert"
    /\ nodeDB' = InsertCrawledNodes(nodeDB, {MinRow(nodes)})
    /\ upserted' = upserted \cup {MinRow(nodes)}
    /\ sinceDrop' = sinceDrop \cup {MinRow(nodes).id}
    /\ pc' = "commit"
    /\ UNCHANGED <<envVars, crawlerRows, nextRow, txOpen, txDel, nodes, err,
                   retryTimeout, sleepArg, remaining, streak>>

\* len(nodes) > 0 and InsertCrawledNodes succeeds
InsertOk ==
    /\ alive /\ pc = "insert"
    /\ nodeDB' = InsertCrawledNodes(nodeDB, nodes)
    /\ upserted' = upserted \cup nodes
    /\ sinceDrop' = sinceDrop \cup {r.id : r \in nodes}
    /\ pc' = "commit"
    /\ UNCHANGED <<envVars, crawlerRows, nextRow, txOpen, txDel, nodes, err,
                   retryTimeout, sleepArg, remaining, streak>>

\* InsertCrawledNodes fails: return, deferred Rollback
InsertErr ==
    /\ alive /\ pc = "insert"
    /\ Rollback
    /\ SleepOnError("insert")
    /\ UNCHANGED <<envVars, nextRow, nodeDB, upserted, sinceDrop>>

\* mutant: the commit empties the table, rows appended since the read
\* included
CommitOkDeletesAll ==
    /\ alive /\ pc = "commit"
    /\ crawlerRows' = {}
    /\ txOpen' = FALSE
    /\ txDel' = {}
    /\ SleepOnSuccess
    /\ UNCHANGED <<envVars, nextRow, nodeDB, upserted, sinceDrop>>

\* crawlerDBTx.Commit() succeeds; return nil
CommitOk ==
    /\ alive /\ pc = "commit"
    /\ crawlerRows' = crawlerRows \ txDel
    /\ txOpen' = FALSE
    /\ txDel' = {}
    /\ SleepOnSuccess
    /\ UNCHANGED <<envVars, nextRow, nodeDB, upserted, sinceDrop>>

\* crawlerDBTx.Commit() fails: nothing is deleted; the error is dropped
\* and nil is returned
CommitErr ==
    /\ alive /\ pc = "commit"
    /\ crawlerRows' = crawlerRows
    /\ txOpen' = FALSE
    /\ txDel' = {}
    /\ SleepOnSuccess
    /\ UNCHANGED <<envVars, nextRow, nodeDB, upserted, sinceDrop>>

\* time.Sleep returns once less than a clock step of it is left (at once
\* when its argument is zero or negative)
SleepOver == Less(remaining, ClockStep)

\* mutant: the loop is left after the failure sleep
WakeBackoffReturns ==
    /\ alive /\ pc = "backoff"
    /\ SleepOver
    /\ retryTimeout' = Double(retryTimeout)
    /\ pc' = "returned"
    /\ err' = "nil"
    /\ sleepArg' = Zero
    /\ remaining' = Zero
    /\ UNCHANGED <<envVars, crawlerRows, nextRow, nodeDB, txOpen, txDel,
                   nodes, upserted, sinceDrop, streak>>

\* time.Sleep(retryTimeout) returns; retryTimeout *= 2; continue
WakeBackoff ==
    /\ alive /\ pc = "backoff"
    /\ SleepOver
    /\ retryTimeout' = Double(retryTimeout)
    /\ pc' = "begin"
    /\ err' = "nil"
    /\ sleepArg' = Zero
    /\ remaining' = Zero
    /\ UNCHANGED <<envVars, crawlerRows, nextRow, nodeDB, txOpen, txDel,
                   nodes, upserted, sinceDrop, streak>>

\* time.Sleep(time.Second) returns; next iteration
WakeIdle ==
    /\ alive /\ pc = "idle"
    /\ SleepOver
    /\ pc' = "begin"
    /\ sleepArg' = Zero
    /\ remaining' = Zero
    /\ streak' = 0
    /\ UNCHANGED <<envVars, crawlerRows, nextRow, nodeDB, txOpen, txDel,
                   nodes, err, retryTimeout, upserted, sinceDrop>>

(***************************************************************************)
(* The clock.  Database calls take no time; the clock advances only while  *)
(* the synchronization daemon sleeps and the eviction daemon has handled   *)
(* its last tick.  A sleep shorter than a clock step spans no step or one. *)
(* The ticker sends on its channel every Cadence steps.                    *)
(***************************************************************************)
Tick ==
    /\ alive
    /\ now < MaxTime
    /\ tickerC = 0
    /\ Sleeping /\ IsPositive(remaining)
    /\ now' = now + 1
    /\ remaining' = Minus(remaining, ClockStep)
    /\ tickerC' = IF (now + 1) % Cadence = 0 THEN 1 ELSE 0
    /\ UNCHANGED <<alive, dropErr, crawlerRows, nextRow, nodeDB, pc, txOpen,
                   txDel, nodes, err, retryTimeout, sleepArg, upserted,
                   sinceDrop, streak>>

\* The sleep in progress runs to its end, the clock not being followed
\* (the backoff specification, where sleeps outlast any clock bound).
Elapse ==
    /\ alive
    /\ Sleeping /\ IsPositive(remaining)
    /\ remaining' = Zero
    /\ UNCHANGED <<envVars, crawlerRows, nextRow, nodeDB, pc, txOpen, txDel,
                   nodes, err, retryTimeout, sleepArg, upserted, sinceDrop,
                   streak>>

(***************************************************************************)
(* dropDaemon: <-ticker.C, then DropOldNodes; an error panics, which ends  *)
(* the process.                                                            *)
(***************************************************************************)
\* mutant: the bulk delete removes nothing
DropOkDeletesNothing ==
    /\ alive /\ tickerC = 1
    /\ tickerC' = 0
    /\ nodeDB' = nodeDB
    /\ sinceDrop' = {}
    /\ UNCHANGED <<alive, now, dropErr, crawlerRows, nextRow, pc, txOpen,
                   txDel, nodes, err, retryTimeout, sleepArg, remaining,
                   upserted, streak>>

\* mutant: the ticker's period is passed as the retention
DropOkCadenceAsTimeout ==
    /\ alive /\ tickerC = 1
    /\ tickerC' = 0
    /\ nodeDB' = DropOldNodes(nodeDB, now, Cadence)
    /\ sinceDrop' = {}
    /\ UNCHANGED <<alive, now, dropErr, crawlerRows, nextRow, pc, txOpen,
                   txDel, nodes, err, retryTimeout, sleepArg, remaining,
                   upserted, streak>>

\* mutant: a zero retention is passed
DropOkZeroTimeout ==
    /\ alive /\ tickerC = 1
    /\ tickerC' = 0
    /\ nodeDB' = DropOldNodes(nodeDB, now, 0)
    /\ sinceDrop' = {}
    /\ UNCHANGED <<alive, now, dropErr, crawlerRows, nextRow, pc, txOpen,
                   txDel, nodes, err, retryTimeout, sleepArg, remaining,
                   upserted, streak>>

\* mutant: the delete is also run on the pending rows of the crawler
\* database
DropOkOnCrawlerDB ==
    /\ alive /\ tickerC = 1
    /\ tickerC' = 0
    /\ nodeDB' = DropOldNodes(nodeDB, now, DropTimeout)
    /\ crawlerRows' = {r \in crawlerRows : ~(r.seen < now - DropTimeout)}
    /\ sinceDrop' = {}
    /\ UNCHANGED <<alive, now, dropErr, nextRow, pc, txOpen,
                   txDel, nodes, err, retryTimeout, sleepArg, remaining,
                   upserted, streak>>

\* <-ticker.C; DropOldNodes succeeds
DropOk ==
    /\ alive /\ tickerC = 1
    /\ tickerC' = 0
    /\ nodeDB' = DropOldNodes(nodeDB, now, DropTimeout)
    /\ sinceDrop' = {}
    /\ UNCHANGED <<alive, now, dropErr, crawlerRows, nextRow, pc, txOpen,
                   txDel, nodes, err, retryTimeout, sleepArg, remaining,
                   upserted, streak>>

\* mutant: the error is logged and the daemon waits for the next tick
DropErrLogged ==
    /\ alive /\ tickerC = 1
    /\ tickerC' = 0
    /\ dropErr' = TRUE
    /\ alive' = alive
    /\ UNCHANGED <<now, crawlerRows, nextRow, nodeDB, pc, txOpen, txDel,
                   nodes, err, retryTimeout, sleepArg, remaining, upserted,
                   sinceDrop, streak>>

\* <-ticker.C; DropOldNodes fails: panic(err)
DropErr ==
    /\ alive /\ tickerC = 1
    /\ tickerC' = 0
    /\ dropErr' = TRUE
    /\ alive' = FALSE
    /\ UNCHANGED <<now, crawlerRows, nextRow, nodeDB, pc, txOpen, txDel,
                   nodes, err, retryTimeout, sleepArg, remaining, upserted,
                   sinceDrop, streak>>

Next ==
    \/ AppendNode
    \/ BeginOk \/ BeginErr
    \/ ReadOk \/ ReadErr
    \/ InsertOk \/ InsertErr
    \/ CommitOk \/ CommitErr
    \/ WakeBackoff \/ WakeIdle
    \/ Tick
    \/ DropOk \/ DropErr

Spec == Init /\ [][Next]_vars

\* The synchronization daemon alone, every sleep running to its end.
NextBackoff ==
    \/ BeginOk \/ BeginErr
    \/ ReadOk \/ ReadErr
    \/ InsertOk \/ InsertErr
    \/ CommitOk \/ CommitErr
    \/ WakeBackoff \/ WakeIdle
    \/ Elapse

SpecBackoff == InitBackoff /\ [][NextBackoff]_vars

\* The steps of newNodeDaemon.
SyncNext ==
    \/ BeginOk \/ BeginErr
    \/ ReadOk \/ ReadErr
    \/ InsertOk \/ InsertErr
    \/ CommitOk \/ CommitErr
    \/ WakeBackoff \/ WakeIdle

\* The crawling engine and the synchronization daemon, every sleep running
\* to its end.
NextLive ==
    \/ AppendNode
    \/ SyncNext
    \/ Elapse

\* The goroutine of newNodeDaemon is scheduled again and again, and every
\* sleep ends.
SpecLive ==
    /\ Init /\ [][NextLive]_vars
    /\ WF_vars(SyncNext)
    /\ WF_vars(Elapse)

(***************************************************************************)
(* Properties.                                                             *)
(***************************************************************************)
\* a step in which transferNewNodes returns nil
ReturnsNil == pc = "commit" /\ pc' = "idle"

\* a step in which transferNewNodes returns an error
ReturnsErr == pc \in {"begin", "read", "insert"} /\ pc' = "backoff"

\* a step in which dropDaemon's bulk delete has run and succeeded
Evicts == tickerC = 1 /\ tickerC' = 0 /\ alive'

\* C1: when transferNewNodes returns nil, every record of the batch it read
\* is in the API database with a last-seen equal to or newer than the
\* record's, and none of them is still pending in the crawler database.
C1_SuccessfulCycleTransfersBatch ==
    [][ReturnsNil =>
          \A r \in nodes :
              /\ nodeDB'[r.id].present
              /\ nodeDB'[r.id].lastSeen >= r.seen
              /\ r \notin crawlerRows']_vars

\* C2: when transferNewNodes returns an error, the crawler database holds
\* the same pending rows as before: the transaction is closed with nothing
\* deleted, the batch it read is still pending, no row appears twice.
C2_FailedCycleKeepsPending ==
    [][ReturnsErr =>
          /\ crawlerRows' = crawlerRows
          /\ nodes \subseteq crawlerRows'
          /\ ~txOpen' /\ txDel' = {}
          /\ \A r, q \in crawlerRows' : r.row = q.row => r = q]_vars

\* C2 witness: an upsert failed and the rows of its batch are pending
C2_Witness ==
    /\ pc = "backoff" /\ err = "insert"
    /\ crawlerRows # {} /\ ~txOpen /\ txDel = {}

\* C3: every row the crawler has appended is still pending in the crawler
\* database or its upsert into the API database has completed.
C3_NoSilentLoss ==
    \A n \in 1..(nextRow - 1) :
        \/ \E r \in crawlerRows : r.row = n
        \/ \E r \in upserted : r.row = n

\* C3 witness: a row has left the crawler database after its upsert, and
\* has been evicted from the API database since
C3_Witness ==
    \E r \in upserted : r \notin crawlerRows /\ ~nodeDB[r.id].present

\* C4: each failed cycle sleeps the current interval, then doubles it, and
\* the doubled interval is strictly greater than the interval before.
C4_BackoffDoubles ==
    [][(pc = "backoff" /\ pc' = "begin") =>
          /\ sleepArg = retryTimeout
          /\ retryTimeout' = Double(retryTimeout)
          /\ Less(retryTimeout, retryTimeout')]_vars

\* C5: after a cycle that returned nil the interval is time.Minute, however
\* many failures came before, and the first failure after it sleeps
\* time.Minute.
C5_SuccessResetsBackoff ==
    /\ pc = "idle" => retryTimeout = Minute
    /\ (pc = "backoff" /\ streak = 1) => sleepArg = Minute

\* C5 witness: a cycle has returned nil after three or more failed cycles
C5_Witness == pc = "idle" /\ streak >= 3 /\ retryTimeout = Minute

\* C6: the step of the cycle that leaves the upsert either upserts every
\* record of the batch (the call succeeded) or leaves the API database as
\* it was (the call failed); no other step of the daemon writes to it.
C6_NoPartialBatch ==
    [][pc' # pc =>
          /\ (pc = "insert" /\ pc' = "commit") =>
                \A r \in nodes : /\ nodeDB'[r.id].present
                                 /\ nodeDB'[r.id].lastSeen >= r.seen
          /\ ~(pc = "insert" /\ pc' = "commit") => nodeDB' = nodeDB]_vars

\* C6 witness: a batch of two records with different identifiers has been
\* upserted by a cycle that retried after a failed one
C6_Witness ==
    /\ pc = "commit" /\ streak >= 1
    /\ \E r, q \in nodes :
          /\ r.id # q.id
          /\ nodeDB[r.id].present /\ nodeDB[q.id].present

LastEviction == IF tickerC = 1 THEN now - Cadence ELSE now - (now % Cadence)

C8_EvictsExactlyOld ==
    [][Evicts =>
          \A i \in Ids :
              nodeDB'[i] = IF /\ nodeDB[i].present
                              /\ nodeDB[i].lastSeen < now - DropTimeout
                           THEN NoNode ELSE nodeDB[i]]_vars

\* C8 witness: the eviction cycle has run; a record one step older than
\* the retention is gone, a record one step newer is kept
C8_Witness ==
    /\ now = Cadence /\ tickerC = 0 /\ alive
    /\ \E r, q \in upserted :
          /\ r.seen = now - DropTimeout - 1 /\ ~nodeDB[r.id].present
          /\ q.seen = now - DropTimeout + 1 /\ nodeDB[q.id].present
          /\ nodeDB[q.id].lastSeen = q.seen

\* C9: an eviction cycle leaves every record whose last-seen is within the
\* retention as it is, wherever the synchronization daemon stands, and a
\* second bulk delete right after it would change nothing.
C9_EvictionIdempotentCommutes ==
    [][Evicts =>
          /\ \A i \in Ids :
                (nodeDB[i].present /\ nodeDB[i].lastSeen >= now - DropTimeout)
                    => nodeDB'[i] = nodeDB[i]
          /\ DropOldNodes(nodeDB', now', DropTimeout) = nodeDB']_vars

\* C9 witness: the eviction cycle ran between the upsert of a batch and the
\* commit of its transaction, and a fresh record of the batch is kept
C9_Witness ==
    /\ pc = "commit" /\ tickerC = 0 /\ now = Cadence
    /\ \E r \in nodes :
          /\ r.id \notin sinceDrop
          /\ r.seen >= now - DropTimeout
          /\ nodeDB[r.id].present /\ nodeDB[r.id].lastSeen = r.seen

\* C10: an error of the bulk delete ends the process, and once the process
\* has ended nothing changes any more: no eviction, no synchronization.
C10_DropErrorIsFatal ==
    /\ [](dropErr => ~alive)
    /\ [][~alive => UNCHANGED vars]_vars

\* C10 witness: the bulk delete failed while rows were pending and a cycle
\* of the synchronization daemon was under way
C10_Witness ==
    /\ dropErr /\ ~alive
    /\ crawlerRows # {} /\ pc \in {"begin", "read", "insert", "commit"}

\* C11: an error of a cycle stays inside newNodeDaemon: the daemon goes to
\* its backoff sleep of retryTimeout, the process lives on, the eviction
\* daemon is not touched, and the sleep is followed by the next cycle.
C11_ErrorsStayInDaemon ==
    /\ [][(err = "nil" /\ err' # "nil") =>
             /\ pc' = "backoff" /\ sleepArg' = retryTimeout
             /\ alive'
             /\ UNCHANGED <<alive, tickerC, dropErr, nodeDB>>]_vars
    /\ [][(pc = "backoff" /\ pc' # "backoff") => (pc' = "begin" /\ alive')]_vars

\* C11 witness: after two failed cycles in a row a third cycle starts, and
\* the eviction daemon has handled its tick in between
C11_Witness ==
    /\ alive /\ pc = "read" /\ streak >= 2
    /\ now >= Cadence /\ tickerC = 0

\* C12: if from some point on no cycle returns an error, every row pending
\* in the crawler database is eventually upserted into the API database.
C12_PendingEventuallyTransferred ==
    (<>[][~ReturnsErr]_vars) =>
        \A n \in 1..MaxRows :
            (\E r \in crawlerRows : r.row = n) ~> (\E r \in upserted : r.row = n)

\* C12 witness: a batch is upserted by a cycle that follows three failed
\* cycles
C12_Witness ==
    /\ pc = "commit" /\ streak >= 3
    /\ nodes # {} /\ nodes \subseteq upserted

\* the number of records of a database
Count(db) == Cardinality({i \in DOMAIN db : db[i].present})

\* the newest row of a batch for identifier i
Newest(rows, i) ==
    CHOOSE r \in rows : r.id = i /\ \A q \in rows : q.id = i => q.row <= r.row

\* C13: an upsert of a batch leaves one record per identifier: an
\* identifier already present keeps its first-seen and takes the address
\* and last-seen of the newest row of the batch, and the number of records
\* grows only by the identifiers that were absent.
C13_UpsertKeyedByIdentifier ==
    [][(pc = "insert" /\ pc' = "commit") =>
          /\ \A i \in {r.id : r \in nodes} :
                /\ nodeDB'[i].present
                /\ nodeDB'[i].addr = Newest(nodes, i).addr
                /\ nodeDB'[i].lastSeen = Newest(nodes, i).seen
                /\ nodeDB[i].present => nodeDB'[i].firstSeen = nodeDB[i].firstSeen
          /\ \A i \in Ids \ {r.id : r \in nodes} : nodeDB'[i] = nodeDB[i]
          /\ Count(nodeDB') =
                Count(nodeDB)
                + Cardinality({r.id : r \in nodes} \ {i \in Ids : nodeDB[i].present})
      ]_vars

\* C13 witness: an identifier was upserted by one cycle and again, with a
\* newer last-seen and another address, by a later one; its record has the
\* first-seen of the first row, the address and last-seen of the second
C13_Witness ==
    \E r, q \in upserted :
        /\ r.id = q.id /\ r.seen < q.seen /\ r.addr # q.addr
        /\ nodeDB[r.id] = Node(q.addr, q.seen, r.seen)
        /\ Count(nodeDB) = 1

\* C14: the end of a transaction, by commit or by rollback, removes no row
\* that the crawler appended after the transaction's read: such a row is
\* pending afterwards, not yet upserted, for a later cycle to read.
C14_AppendInFlightSurvives ==
    [][(txOpen /\ ~txOpen') =>
          /\ (crawlerRows \ nodes) \subseteq crawlerRows'
          /\ \A r \in crawlerRows \ nodes : r \in upserted' => r \in upserted
      ]_vars

\* C14 witness: the batch has been read and upserted, the transaction is
\* still open, and the crawler has appended a row that is not in the batch
C14_Witness ==
    /\ pc = "commit" /\ txOpen /\ nodes # {}
    /\ \E r \in crawlerRows : r \notin nodes /\ r \notin upserted

\* the cycle ends before the upsert is reached
Aborts == pc \in {"begin", "read"} /\ pc' \notin {pc, "read", "insert", "commit"}

\* C15: a cycle whose Begin or whose read-and-delete fails ends at once in
\* the backoff sleep of retryTimeout, with the error kept, no transaction
\* open, no upsert made and the API database as it was; opening the
\* transaction does not write to the API database either.
C15_EarlyFailureAborts ==
    /\ [][Aborts =>
             /\ pc' = "backoff" /\ err' = pc
             /\ sleepArg' = retryTimeout /\ remaining' = retryTimeout
             /\ ~txOpen'
             /\ UNCHANGED <<nodeDB, upserted, crawlerRows>>]_vars
    /\ [][(pc = "begin" /\ pc' = "read") => UNCHANGED <<nodeDB, upserted>>]_vars

\* C15 witness: the read failed with rows pending, after a cycle whose
\* Begin failed, and nothing has ever been upserted
C15_Witness ==
    /\ pc = "backoff" /\ err = "read" /\ streak >= 2
    /\ crawlerRows # {} /\ upserted = {} /\ Count(nodeDB) = 0

\* C16: a cycle that reads no row skips the upsert; when it returns nil the
\* API database is as it was, retryTimeout is one minute and the daemon
\* sleeps one second; the sleep over, the next cycle begins with
\* retryTimeout still one minute.
C16_EmptyCycleIdles ==
    /\ [][(pc = "read" /\ pc' \in {"insert", "commit"} /\ crawlerRows = {}) =>
             (pc' = "commit" /\ nodes' = {} /\ nodeDB' = nodeDB)]_vars
    /\ [][(ReturnsNil /\ nodes = {}) =>
             /\ retryTimeout' = Minute
             /\ sleepArg' = Second /\ remaining' = Second
             /\ UNCHANGED <<nodeDB, upserted>>]_vars
    /\ [][(pc = "idle" /\ pc' # "idle") =>
             /\ pc' = "begin" /\ sleepArg = Second
             /\ Less(remaining, ClockStep)
             /\ retryTimeout' = Minute]_vars

\* C16 witness: nothing was ever appended, a cycle failed and grew the
\* interval, and the next cycle found nothing and returned nil
C16_Witness ==
    /\ pc = "idle" /\ streak >= 1 /\ nextRow = 1
    /\ crawlerRows = {} /\ upserted = {}
    /\ sleepArg = Second /\ retryTimeout = Minute

\* C17: an eviction writes to the API database only: the pending rows of
\* the crawler database, the open transaction and what it read, and the
\* position, interval and sleep of newNodeDaemon are as they were.
C17_EvictionTouchesOnlyNodeDB ==
    [][Evicts =>
          UNCHANGED <<crawlerRows, nextRow, txOpen, txDel, nodes, pc, err,
                      retryTimeout, sleepArg, remaining, upserted>>]_vars

\* C17 witness: the eviction has run after the upsert of an open
\* transaction, with the interval grown by a failed cycle, and a pending
\* row older than the retention is still pending
C17_Witness ==
    /\ alive /\ now = Cadence /\ tickerC = 0
    /\ pc = "commit" /\ txOpen /\ nodes # {} /\ sinceDrop = {}
    /\ retryTimeout # Minute
    /\ \E r \in crawlerRows : r.seen < now - DropTimeout

\* C18, as claimed: a cycle whose commit failed, so that rows the
\* transaction deleted are pending again, is not reported as a success: it
\* ends in the backoff sleep with an error and retryTimeout is not reset.
C18_CommitFailureIsFailure ==
    [][(pc = "commit" /\ pc' # "commit" /\ (txDel \cap crawlerRows') # {}) =>
          /\ pc' = "backoff" /\ err' # "nil"
          /\ retryTimeout' = retryTimeout]_vars

\* C19: a transaction is open only between Begin and the return of
\* transferNewNodes: none is open, and nothing is held deleted, while the
\* daemon sleeps or is about to call Begin.
C19_NoTransactionWhileSleeping ==
    /\ txOpen <=> pc \in {"read", "insert", "commit"}
    /\ (Sleeping \/ pc = "begin") => (~txOpen /\ txDel = {})

\* C19 witness: a cycle that had opened a transaction failed, and the
\* daemon is part way through the backoff sleep
C19_Witness ==
    /\ pc = "backoff" /\ err \in {"read", "insert"}
    /\ Less(remaining, sleepArg) /\ IsPositive(remaining)
    /\ ~txOpen /\ crawlerRows # {}

\* C20, as claimed: retryTimeout is always positive and at least one minute.
C20_BackoffStaysPositive ==
    IsPositive(retryTimeout) /\ ~Less(retryTimeout, Minute)

====
